---- MODULE Spec2Model ----
(***************************************************************************)
(* Graph explorer of the Cosmos DB extension.                              *)
(*                                                                         *)
(* The render client (class GraphClient, src/unnamed/part_000) is modelled *)
(* handler by handler: every socket message handler and every public       *)
(* method is one action, built from operators that carry the names of the  *)
(* methods they model and transform a record of the client's fields.       *)
(* The messages the socket delivers are inputs: any reply id, any result   *)
(* set and any page state snapshot of the bounded domains below.           *)
(***************************************************************************)
EXTENDS Integers, Sequences, FiniteSets, TLC

(***************************************************************************)
(* Program constants (part_000, lines 19-21).                              *)
(***************************************************************************)
defaultQuery == "g.V()"
maxNodes == 300
maxEdges == 1000

(***************************************************************************)
(* Bounds of the model.                                                    *)
(***************************************************************************)
MaxQueryId == 2      \* query ids range over 1..MaxQueryId
MaxForces == 2       \* force objects that can be alive at the same time
MaxSmall == 2        \* small result sets hold up to MaxSmall vertices, edges of a kind
MaxOver == 1         \* large result sets exceed a cap by up to MaxOver

(***************************************************************************)
(* Values.                                                                 *)
(***************************************************************************)
undefined == "undefined"

\* interface ResultNode / ResultEdge / ResultVertex; a property the record
\* does not carry reads as undefined.
Vertex(id) == [id |-> id, type |-> "vertex", inV |-> undefined, outV |-> undefined]
Edge(id, inV, outV) == [id |-> id, type |-> "edge", inV |-> inV, outV |-> outV]

\* an array element that is null: reading a property of it throws a TypeError
null == [id |-> undefined, type |-> "null", inV |-> undefined, outV |-> undefined]

\* The result sets a reply can carry, one of each kind the client tells
\* apart: no record, records and no vertex among them, and vertices (two, with
\* the edge between them). Larger result sets are the subject of SpecRender.
QueryResults ==
  {<<>>,
   <<Edge("e1", "a", "b")>>,
   <<Vertex("a"), Vertex("b"), Edge("e1", "a", "b")>>}

\* The out-of-band edge list of a reply: none, the edge from a to b (which
\* doubles the edge of the primary result set), or a list with a null in it.
EdgeResults == {<<>>, <<Edge("e1", "a", "b")>>, <<null>>}
QueryIds == 1..MaxQueryId
Queries == {defaultQuery}
Errors == {"Gremlin error"}
Views == {"json", "graph"}
States == {"empty", "querying", "error", "json-results", "graph-results"}
ForceIds == 1..MaxForces

Min(a, b) == IF a < b THEN a ELSE b

\* a message passed to socket.emit
Msg(message, id, text) == [msg |-> message, id |-> id, text |-> text]

VARIABLES
  _currentQueryId,  \* GraphClient._currentQueryId
  _force,           \* GraphClient._force: 0 is undefined, else the force object
  _graphView,       \* GraphClient._graphView (undefined reads as false everywhere)
  state,            \* class of the #states element
  jsonResults,      \* htmlElements.jsonResults.value
  queryError,       \* htmlElements.queryError.value
  stats,            \* text of htmlElements.stats
  svg,              \* the .edge, .label and .vertex elements below the svg
  alpha,            \* per force object: its simulation is running (alpha > 0 in d3)
  emitted,          \* messages the last handler passed to socket.emit, in order
  uncaught,         \* the last handler was ended by an exception that nothing caught
  lastEvent,        \* the event the last handler was called for, with its arguments
  maxIssued,        \* highest id carried by a 'query' message so far (0: none)
  _pageState,       \* host: the session's PageState
  executing,        \* host: ids of the queries whose backend call has not returned
  sent,             \* host: messages the last step emitted to the client, in order
  executionId,      \* Shell.executionId
  buffers,          \* Shell.initialize: the chunks of stdout kept back so far
  execs,            \* Shell.exec: per call its promise, its onResult listener and its timer
  mongoShell,       \* the shell process: "starting", "running", "exited", or the code of
                    \* the 'error' its spawn failed with
  stdin,            \* what was written to the process and not yet read by it
  stdout,           \* the chunks the process has written and 'data' has not yet delivered
  ignoreSave,       \* EditorManager.ignoreSave
  updating,         \* EditorManager.updateEditor: per document, where its run stands
  showSavePrompt,   \* the setting cosmosDB.showSavePrompt (anything but false shows it)
  fileMap,          \* EditorManager.fileMap: the documents that have an editor
  persisted,        \* the persisted editors record of globalState, likewise
  isDirty,          \* per document, whether it has unsaved changes
  _hasMoreChildren, \* DocDBTreeItemBase._hasMoreChildren
  _iterator,        \* DocDBTreeItemBase._iterator (NoIterator when undefined)
  _batchSize,       \* DocDBTreeItemBase._batchSize
  returned,         \* the resources of the children the last load has returned
  handler           \* onDidSaveTextDocument: per document what it awaits, the answer
                    \* to the save prompt ("prompt"), the update of the setting
                    \* ("setting"), editor.update in updateToCloud ("update")

clientVars == <<_currentQueryId, _force, _graphView, state, jsonResults, queryError,
                stats, svg, alpha, emitted, uncaught, maxIssued>>
hostVars == <<_pageState, executing, sent>>
shellVars == <<executionId, buffers, execs, mongoShell, stdin, stdout>>
editorVars == <<ignoreSave, updating, showSavePrompt, fileMap, persisted, isDirty,
                handler>>
treeVars == <<_hasMoreChildren, _iterator, _batchSize, returned>>
vars == <<clientVars, hostVars, shellVars, editorVars, treeVars, lastEvent>>

(***************************************************************************)
(* The client as a record: the methods below are functions on it.          *)
(***************************************************************************)
This ==
  [_currentQueryId |-> _currentQueryId, _force |-> _force, _graphView |-> _graphView,
   state |-> state, jsonResults |-> jsonResults, queryError |-> queryError,
   stats |-> stats, svg |-> svg, alpha |-> alpha,
   emitted |-> <<>>, uncaught |-> FALSE]

NoGraph == [edge |-> <<>>, label |-> <<>>, vertex |-> <<>>]

\* emitToHost(message, ...args)
emitToHost(c, m) == [c EXCEPT !.emitted = Append(@, m)]

\* log(s): this._socket is set once the constructor has run
log(c, id, text) == emitToHost(c, Msg("log", id, text))

\* _setState(state)
_setState(c, s) == [c EXCEPT !.state = s]

\* setStateEmpty()
setStateEmpty(c) == _setState(c, "empty")

\* clearGraph(): remove every .vertex, .edge and .label below the svg
clearGraph(c) == [c EXCEPT !.svg = NoGraph]

\* setStateQuerying() without its clearGraph() call
setStateQuerying_noClear(c) == _setState(c, "querying")

\* setStateQuerying()
setStateQuerying(c) == clearGraph(_setState(c, "querying"))

\* setStateResults(hasGraph)
setStateResults(c, hasGraph) ==
  _setState(c, IF hasGraph THEN "graph-results" ELSE "json-results")

\* setStateError that shows a text of its own
setStateError_ownText(c, error) ==
  clearGraph(_setState([c EXCEPT !.queryError = "The query failed"], "error"))

\* setStateError(error): error.message || error.toString() of a string is the string
setStateError(c, error) ==
  clearGraph(_setState([c EXCEPT !.queryError = error], "error"))

\* setView()
setView(c) ==
  emitToHost(c, Msg("setView", 0, IF c._graphView THEN "graph" ELSE "json"))

\* selectGraphView() / selectJsonView()
selectGraphView(c) == setView([c EXCEPT !._graphView = TRUE])
selectJsonView(c) == setView([c EXCEPT !._graphView = FALSE])

\* splitVerticesAndEdges(nodes)
splitVerticesAndEdges(nodes) ==
  <<SelectSeq(nodes, LAMBDA n : n.type = "vertex"),
    SelectSeq(nodes, LAMBDA n : n.type = "edge")>>

\* JSON.stringify(queryResults, null, 2): the brackets around the texts of
\* the elements, each a sequence of tokens; a property whose value is
\* undefined is left out.
StringifyProperty(key, value) ==
  IF value = undefined THEN <<>> ELSE <<key, value>>

StringifyNode(n) ==
  <<"{">> \o StringifyProperty("id:", n.id) \o StringifyProperty("type:", n.type)
          \o StringifyProperty("inV:", n.inV) \o StringifyProperty("outV:", n.outV)
          \o <<"}">>

JSONstringify(nodes) ==
  <<"[", [i \in 1..Len(nodes) |-> StringifyNode(nodes[i])], "]">>

(***************************************************************************)
(* displayGraph(vertices, edges)                                           *)
(***************************************************************************)
\* the cap keeps the last maxNodes vertices
ForceNodes_lastVertices(vertices) ==
  [i \in 1..Min(Len(vertices), maxNodes) |->
     [vertex |-> vertices[Len(vertices) - Min(Len(vertices), maxNodes) + i], index |-> i]]

\* vertices.slice(0, maxNodes).map(v => { vertex: v }); index tells apart two
\* node objects that wrap equal vertices.
ForceNodes(vertices) ==
  [i \in 1..Min(Len(vertices), maxNodes) |-> [vertex |-> vertices[i], index |-> i]]

\* nodesById.get(id) after nodes.forEach(n => nodesById.set(n.vertex.id, n)):
\* the last node set for that id; 0 is undefined.
nodesByIdGet(nodes, id) ==
  LET hits == {i \in 1..Len(nodes) : nodes[i].vertex.id = id}
  IN  IF hits = {} THEN 0 ELSE CHOOSE i \in hits : \A j \in hits : j <= i

\* the edge cap taken of the edges, ahead of the look-up of their endpoints
ForceLinks_ofFirstEdges(nodes, edges) ==
  LET first == SubSeq(edges, 1, Min(Len(edges), maxEdges))
      pushed == SelectSeq(first, LAMBDA e : /\ nodesByIdGet(nodes, e.inV) # 0
                                           /\ nodesByIdGet(nodes, e.outV) # 0)
  IN  [i \in 1..Len(pushed) |->
         [edge |-> pushed[i],
          source |-> nodes[nodesByIdGet(nodes, pushed[i].inV)],
          target |-> nodes[nodesByIdGet(nodes, pushed[i].outV)]]]

\* a link for every edge whose inV is found, its target a node of its own
\* when outV is not
ForceLinks_sourceOnly(nodes, edges) ==
  LET pushed == SelectSeq(edges, LAMBDA e : nodesByIdGet(nodes, e.inV) # 0)
  IN  [i \in 1..Len(pushed) |->
         [edge |-> pushed[i],
          source |-> nodes[nodesByIdGet(nodes, pushed[i].inV)],
          target |-> IF nodesByIdGet(nodes, pushed[i].outV) # 0
                     THEN nodes[nodesByIdGet(nodes, pushed[i].outV)]
                     ELSE [vertex |-> Vertex(pushed[i].outV), index |-> 0]]]

\* the source looked up by outV and the target by inV
ForceLinks_outVToInV(nodes, edges) ==
  LET pushed == SelectSeq(edges, LAMBDA e : /\ nodesByIdGet(nodes, e.inV) # 0
                                            /\ nodesByIdGet(nodes, e.outV) # 0)
  IN  [i \in 1..Len(pushed) |->
         [edge |-> pushed[i],
          source |-> nodes[nodesByIdGet(nodes, pushed[i].outV)],
          target |-> nodes[nodesByIdGet(nodes, pushed[i].inV)]]]

\* edges.forEach(e => { ... if (source && target) links.push(...) }): one
\* link, in the order of the edges, for every edge whose inV and outV are both
\* found in nodesById
ForceLinks(nodes, edges) ==
  LET pushed == SelectSeq(edges, LAMBDA e : /\ nodesByIdGet(nodes, e.inV) # 0
                                            /\ nodesByIdGet(nodes, e.outV) # 0)
  IN  [i \in 1..Len(pushed) |->
         [edge |-> pushed[i],
          source |-> nodes[nodesByIdGet(nodes, pushed[i].inV)],
          target |-> nodes[nodesByIdGet(nodes, pushed[i].outV)]]]

\* links.slice(0, maxEdges)
SliceLinks(links) == SubSeq(links, 1, Min(Len(links), maxEdges))

\* statsText with the two numbers of each pair in the other order
statsText_swapped(nodes, vertices, links, edges) ==
  IF Len(nodes) = Len(vertices) /\ Len(links) = Len(edges)
  THEN <<"Displaying all", Len(nodes), "vertices and", Len(links), "edges">>
  ELSE <<"Displaying", Len(vertices), "of", Len(nodes), "vertices and",
         Len(edges), "of", Len(links), "edges">>

\* statsText, as the sequence of its literal parts and numbers
statsText(nodes, vertices, links, edges) ==
  IF Len(nodes) = Len(vertices) /\ Len(links) = Len(edges)
  THEN <<"Displaying all", Len(nodes), "vertices and", Len(links), "edges">>
  ELSE <<"Displaying", Len(nodes), "of", Len(vertices), "vertices and",
         Len(links), "of", Len(edges), "edges">>

\* the old simulation is left running
StopForce_noStop(c) == c

\* if (this._force) { this._force.stop(); }
StopForce(c) ==
  IF c._force # 0 THEN [c EXCEPT !.alpha[c._force] = FALSE] ELSE c

\* d3.layout.force(): a new force object, distinct from the one this._force
\* still refers to and from every object whose simulation is running (an
\* object that is neither is garbage, its slot is free).
FreeForces(c) == {f \in ForceIds : ~c.alpha[f] /\ f # c._force}
NewForce(c) ==
  IF FreeForces(c) = {} THEN CHOOSE f \in ForceIds : f # c._force
  ELSE CHOOSE f \in FreeForces(c) : \A g \in FreeForces(c) : f <= g

\* edges.forEach(e => { ... e.inV ... }) throws on the first element that is
\* null; nothing else in the try block reads a value that can be missing
\* (every vertex passed the test n.type === "vertex").
forEachThrows(edges) == \E i \in 1..Len(edges) : edges[i] = null

\* the statements of the try block, for edges that make none of them throw
TryDisplayGraph(c, vertices, edges) ==
  LET nodes == ForceNodes(vertices)
      links == SliceLinks(ForceLinks(nodes, edges))
      c1 == clearGraph(c)
      c2 == [c1 EXCEPT !.stats = statsText(nodes, vertices, links, edges)]
      c3 == StopForce(c2)
      c4 == [c3 EXCEPT !._force = NewForce(c3)]
      \* edges first, then labels, then vertices are appended
      c5 == [c4 EXCEPT !.svg = [edge |-> links, label |-> nodes, vertex |-> nodes]]
      \* force.start()
  IN  [c5 EXCEPT !.alpha[c5._force] = TRUE]

\* displayGraph without try and catch: the exception leaves the method
displayGraph_withoutCatch(c, vertices, edges) ==
  IF forEachThrows(edges)
  THEN [clearGraph(c) EXCEPT !.uncaught = TRUE]
  ELSE TryDisplayGraph(c, vertices, edges)

\* try { ... } catch (err) { this.log(err); }: the exception of forEach is
\* thrown after clearGraph() and before anything else is changed
displayGraph(c, vertices, edges) ==
  IF forEachThrows(edges)
  THEN log(clearGraph(c), 0, "TypeError")
  ELSE TryDisplayGraph(c, vertices, edges)

\* showResults that leaves the out-of-band edge list out of the graph
showResults_withoutEdgeResults(c, queryResults, edgeResults) ==
  LET c1 == [c EXCEPT !.jsonResults = JSONstringify(queryResults)]
      split == splitVerticesAndEdges(queryResults)
  IN  IF Len(split[1]) = 0
      THEN setStateResults(c1, FALSE)
      ELSE displayGraph(setStateResults(c1, TRUE), split[1], split[2])

\* showResults that takes of the out-of-band list only the edges whose id
\* the primary result set does not hold
showResults_uniqueEdges(c, queryResults, edgeResults) ==
  LET c1 == [c EXCEPT !.jsonResults = JSONstringify(queryResults)]
      split == splitVerticesAndEdges(queryResults)
      ids == {split[2][i].id : i \in 1..Len(split[2])}
      edges == split[2] \o SelectSeq(edgeResults, LAMBDA e : e.id \notin ids)
  IN  IF Len(split[1]) = 0
      THEN setStateResults(c1, FALSE)
      ELSE displayGraph(setStateResults(c1, TRUE), split[1], edges)

\* showResults that writes the JSON text only when it draws no graph
showResults_jsonOnlyWithoutGraph(c, queryResults, edgeResults) ==
  LET split == splitVerticesAndEdges(queryResults)
  IN  IF Len(split[1]) = 0
      THEN setStateResults([c EXCEPT !.jsonResults = JSONstringify(queryResults)], FALSE)
      ELSE displayGraph(setStateResults(c, TRUE), split[1], split[2] \o edgeResults)

\* showResults without the test for an empty vertex list
showResults_alwaysGraph(c, queryResults, edgeResults) ==
  LET c1 == [c EXCEPT !.jsonResults = JSONstringify(queryResults)]
      split == splitVerticesAndEdges(queryResults)
  IN  displayGraph(setStateResults(c1, TRUE), split[1], split[2] \o edgeResults)

\* showResults(queryResults, edgeResults)
showResults(c, queryResults, edgeResults) ==
  LET c1 == [c EXCEPT !.jsonResults = JSONstringify(queryResults)]
      split == splitVerticesAndEdges(queryResults)
      vertices == split[1]
      edges == split[2] \o edgeResults
  IN  IF Len(vertices) = 0
      THEN setStateResults(c1, FALSE)
      ELSE displayGraph(setStateResults(c1, TRUE), vertices, edges)

(***************************************************************************)
(* Socket handlers and public methods.                                     *)
(***************************************************************************)
\* JavaScript truthiness of an optional string
Falsy(x) == x = undefined \/ x = ""

\* socket.on('connect')
onConnect(c) ==
  emitToHost(log(c, 0, "Client connected on port"), Msg("getTitle", 0, ""))

\* a disconnect that resets the view
onDisconnect_setsEmpty(c) == setStateEmpty(log(c, 0, "disconnect"))

\* socket.on('disconnect')
onDisconnect(c) == log(c, 0, "disconnect")

\* 'setPageState' that leaves the current query id as it is
onSetPageState_keepsQueryId(c, pageState) ==
  IF pageState.isQueryRunning
  THEN setStateQuerying(c)
  ELSE LET c2 == IF Falsy(pageState.errorMessage)
                 THEN showResults(c, pageState.results.queryResults,
                                  pageState.results.edgeResults)
                 ELSE setStateError(c, pageState.errorMessage)
       IN  IF c2.uncaught THEN c2
           ELSE IF pageState.view = "json" THEN selectJsonView(c2) ELSE selectGraphView(c2)

\* socket.on('setPageState')
onSetPageState(c, pageState) ==
  LET c1 == c
  IN  IF pageState.isQueryRunning
      THEN setStateQuerying([c1 EXCEPT !._currentQueryId = pageState.runningQueryId])
      ELSE LET c2 == IF Falsy(pageState.errorMessage)
                     THEN showResults(c1, pageState.results.queryResults,
                                      pageState.results.edgeResults)
                     ELSE setStateError(c1, pageState.errorMessage)
           IN  IF c2.uncaught THEN c2
               ELSE IF pageState.view = "json" THEN selectJsonView(c2) ELSE selectGraphView(c2)

\* 'showResults' that takes every reply up to the current id
onShowResults_acceptsOlder(c, queryId, queryResults, edgeResults) ==
  LET c1 == log(c, queryId, "Received results for query")
  IN  IF queryId > c1._currentQueryId
      THEN log(c1, 0, "  Ignoring results, out of date")
      ELSE showResults(c1, queryResults, edgeResults)

\* socket.on('showResults')
onShowResults(c, queryId, queryResults, edgeResults) ==
  LET c1 == log(c, queryId, "Received results for query")
  IN  IF queryId # c1._currentQueryId
      THEN log(c1, 0, "  Ignoring results, out of date")
      ELSE showResults(c1, queryResults, edgeResults)

\* 'showQueryError' without the id test
onShowQueryError_noIdCheck(c, queryId, error) ==
  setStateError(log(c, queryId, "Received error for query"), error)

\* socket.on('showQueryError')
onShowQueryError(c, queryId, error) ==
  LET c1 == log(c, queryId, "Received error for query")
  IN  IF queryId # c1._currentQueryId
      THEN log(c1, 0, "  Ignoring error, out of date")
      ELSE setStateError(c1, error)

\* getPageState()
getPageState(c) == emitToHost(c, Msg("getPageState", 0, ""))

\* query(gremlin)
query(c, gremlin) ==
  LET c1 == [c EXCEPT !._currentQueryId = @ + 1]
  IN  setStateQuerying(emitToHost(c1, Msg("query", c1._currentQueryId, gremlin)))

\* The page states the host can send: a running query, results, or an error.
PageStates ==
  {[query |-> q, isQueryRunning |-> TRUE, runningQueryId |-> k,
    results |-> [queryResults |-> <<>>, edgeResults |-> <<>>],
    errorMessage |-> undefined, view |-> v] :
      q \in Queries, k \in QueryIds, v \in Views}
  \cup
  {[query |-> q, isQueryRunning |-> FALSE, runningQueryId |-> 0,
    results |-> [queryResults |-> r, edgeResults |-> e],
    errorMessage |-> undefined, view |-> v] :
      q \in Queries, r \in QueryResults, e \in EdgeResults, v \in Views}
  \cup
  {[query |-> q, isQueryRunning |-> FALSE, runningQueryId |-> 0,
    results |-> [queryResults |-> <<>>, edgeResults |-> <<>>],
    errorMessage |-> m, view |-> v] :
      q \in Queries, m \in Errors, v \in Views}

(***************************************************************************)
(* Actions.                                                                *)
(***************************************************************************)
\* The event a handler is called for: its name, the query id it carries, and
\* of the payload the number of records of type "vertex" in the primary result
\* set, the two result lists themselves, the error text and, for a page
\* state, which kind of snapshot it is and its view.
NumVertices(nodes) == Cardinality({i \in 1..Len(nodes) : nodes[i].type = "vertex"})
NoEvent ==
  [name |-> "constructor", queryId |-> 0, vertices |-> 0,
   isQueryRunning |-> FALSE, hasError |-> FALSE, view |-> "",
   queryResults |-> <<>>, edgeResults |-> <<>>, error |-> "", response |-> "", outcome |-> ""]
Event(name, queryId) == [NoEvent EXCEPT !.name = name, !.queryId = queryId]
ResultsEvent(queryId, queryResults, edgeResults) ==
  [Event("showResults", queryId) EXCEPT
     !.vertices = NumVertices(queryResults),
     !.queryResults = queryResults,
     !.edgeResults = edgeResults]
ErrorEvent(queryId, error) == [Event("showQueryError", queryId) EXCEPT !.error = error]
PageStateEvent(pageState) ==
  [Event("setPageState", pageState.runningQueryId) EXCEPT
     !.vertices = NumVertices(pageState.results.queryResults),
     !.queryResults = pageState.results.queryResults,
     !.edgeResults = pageState.results.edgeResults,
     !.error = IF Falsy(pageState.errorMessage) THEN "" ELSE pageState.errorMessage,
     !.isQueryRunning = pageState.isQueryRunning,
     !.hasError = ~Falsy(pageState.errorMessage),
     !.view = pageState.view]

\* the fields of the client after a handler has run on it
Becomes(after) ==
  \E c \in {after} :
    /\ _currentQueryId' = c._currentQueryId
    /\ _force' = c._force
    /\ _graphView' = c._graphView
    /\ state' = c.state
    /\ jsonResults' = c.jsonResults
    /\ queryError' = c.queryError
    /\ stats' = c.stats
    /\ svg' = c.svg
    /\ alpha' = c.alpha
    /\ emitted' = c.emitted
    /\ uncaught' = c.uncaught
    /\ UNCHANGED <<hostVars, shellVars, editorVars, treeVars>>

QueriesEmitted(c) == {c.emitted[i].id : i \in {j \in 1..Len(c.emitted) : c.emitted[j].msg = "query"}}

Max(S) == CHOOSE x \in S : \A y \in S : y <= x

\* new Shell(execPath, cp.spawn(execPath, args)) (shell.ts)
InitShell ==
  /\ executionId = 0
  /\ buffers = <<>>
  /\ execs = <<>>
  /\ mongoShell = "starting"
  /\ stdin = <<>>
  /\ stdout = <<>>

MaxDocs == 2

\* the documents shown by showDocument
Docs == 1..MaxDocs

\* new EditorManager(globalState) (part_003), with nothing persisted yet
InitEditor ==
  /\ ignoreSave = FALSE
  /\ updating = [doc \in Docs |-> "idle"]
  /\ showSavePrompt = TRUE
  /\ fileMap = {}
  /\ persisted = {}
  /\ isDirty = [doc \in Docs |-> FALSE]
  /\ handler = [doc \in Docs |-> "none"]

\* this._iterator when it is undefined
NoIterator == [maxItemCount |-> 0, total |-> 0, pos |-> 0, fetched |-> FALSE]

\* the fields of a new DocDBTreeItemBase, with the batch size setting at 1
InitTree ==
  /\ _hasMoreChildren = TRUE
  /\ _iterator = NoIterator
  /\ _batchSize = 1
  /\ returned = <<>>

Init ==
  /\ _currentQueryId = 0
  /\ _force = 0
  /\ _graphView = FALSE
  /\ state = "empty"
  /\ jsonResults = <<>>
  /\ queryError = ""
  /\ stats = <<>>
  /\ svg = NoGraph
  /\ alpha = [f \in ForceIds |-> FALSE]
  /\ emitted = <<>>
  /\ uncaught = FALSE
  /\ lastEvent = NoEvent
  /\ maxIssued = 0
  /\ _pageState = [query |-> defaultQuery, isQueryRunning |-> FALSE, runningQueryId |-> 0,
                  results |-> [queryResults |-> <<>>, edgeResults |-> <<>>],
                  errorMessage |-> undefined, view |-> "graph"]
  /\ executing = {}
  /\ sent = <<>>
  /\ InitShell
  /\ InitEditor
  /\ InitTree

Connect ==
  /\ Becomes(onConnect(This))
  /\ lastEvent' = Event("connect", 0)
  /\ UNCHANGED maxIssued

Disconnect ==
  /\ Becomes(onDisconnect(This))
  /\ lastEvent' = Event("disconnect", 0)
  /\ UNCHANGED maxIssued

SetPageState ==
  \E pageState \in PageStates :
    /\ Becomes(onSetPageState(This, pageState))
    /\ lastEvent' = PageStateEvent(pageState)
    /\ UNCHANGED maxIssued

ShowResults ==
  \E queryId \in QueryIds, queryResults \in QueryResults, edgeResults \in EdgeResults :
    /\ Becomes(onShowResults(This, queryId, queryResults, edgeResults))
    /\ lastEvent' = ResultsEvent(queryId, queryResults, edgeResults)
    /\ UNCHANGED maxIssued

ShowQueryError ==
  \E queryId \in QueryIds, error \in Errors :
    /\ Becomes(onShowQueryError(This, queryId, error))
    /\ lastEvent' = ErrorEvent(queryId, error)
    /\ UNCHANGED maxIssued

GetPageState ==
  /\ Becomes(getPageState(This))
  /\ lastEvent' = Event("getPageState", 0)
  /\ UNCHANGED maxIssued

Query ==
  \E gremlin \in Queries :
    /\ _currentQueryId < MaxQueryId
    /\ Becomes(query(This, gremlin))
    /\ lastEvent' = Event("query", Max(QueriesEmitted(query(This, gremlin))))
    /\ maxIssued' = Max({maxIssued} \cup QueriesEmitted(query(This, gremlin)))

SelectGraphView ==
  /\ Becomes(selectGraphView(This))
  /\ lastEvent' = Event("selectGraphView", 0)
  /\ UNCHANGED maxIssued

SelectJsonView ==
  /\ Becomes(selectJsonView(This))
  /\ lastEvent' = Event("selectJsonView", 0)
  /\ UNCHANGED maxIssued

\* The timer of a running simulation (d3.layout.force) ticks until the layout
\* has cooled down and then ends by itself; the coordinates a tick writes
\* are not part of the model, so only the last tick is a step.
ForceEnd ==
  \E f \in ForceIds :
    /\ alpha[f]
    /\ alpha' = [alpha EXCEPT ![f] = FALSE]
    /\ lastEvent' = Event("end", 0)
    /\ emitted' = <<>>
    /\ uncaught' = FALSE
    /\ UNCHANGED <<_currentQueryId, _force, _graphView, state, jsonResults, queryError,
                   stats, svg, maxIssued>>
    /\ UNCHANGED <<hostVars, shellVars, editorVars, treeVars>>

Next ==
  \/ Connect
  \/ Disconnect
  \/ SetPageState
  \/ ShowResults
  \/ ShowQueryError
  \/ GetPageState
  \/ Query
  \/ SelectGraphView
  \/ SelectJsonView
  \/ ForceEnd

Spec == Init /\ [][Next]_vars


(***************************************************************************)
(* The host-side session controller (GraphViewServer, behind the socket    *)
(* wrapper GraphViewServerSocket of part_001). Its source is not part of   *)
(* src/; it is modelled from sections 3, 4.1 and 6 of the specification.   *)
(***************************************************************************)
\* what a backend call can return: a result set with its edge list, or an error
Outcomes ==
  {[queryResults |-> r, edgeResults |-> e, error |-> undefined] :
     r \in QueryResults, e \in EdgeResults}
  \cup {[queryResults |-> <<>>, edgeResults |-> <<>>, error |-> m] : m \in Errors}

\* a message emitted to the client
ServerMsg(message, id, body) == [msg |-> message, id |-> id, body |-> body]

Host == [pageState |-> _pageState, executing |-> executing, sent |-> <<>>]

\* GraphViewServerSocket.emitToClient(message, ...args)
emitToClient(h, m) == [h EXCEPT !.sent = Append(@, m)]

\* query(text): take the next query id, dispatch the text under it, go to
\* "querying" and tell the render surface the pending id
serverQuery(h, text) ==
  LET id == h.pageState.runningQueryId + 1
      h1 == [h EXCEPT !.pageState.query = text,
                      !.pageState.isQueryRunning = TRUE,
                      !.pageState.runningQueryId = id,
                      !.pageState.results = [queryResults |-> <<>>, edgeResults |-> <<>>],
                      !.pageState.errorMessage = undefined,
                      !.executing = @ \cup {id}]
  IN  emitToClient(h1, ServerMsg("setPageState", id, h1.pageState))

\* a completion that always emits its reply
serverComplete_alwaysEmits(h, id, outcome) ==
  emitToClient([h EXCEPT !.executing = @ \ {id}, !.pageState.isQueryRunning = FALSE],
               ServerMsg(IF outcome.error = undefined THEN "showResults" ELSE "showQueryError",
                         id, outcome))

\* completion of the backend call of query id: emit the reply unless a newer
\* query has been started since
serverComplete(h, id, outcome) ==
  LET h1 == [h EXCEPT !.executing = @ \ {id}]
  IN  IF id # h1.pageState.runningQueryId THEN h1
      ELSE IF outcome.error = undefined
      THEN emitToClient(
             [h1 EXCEPT !.pageState.isQueryRunning = FALSE,
                        !.pageState.results = [queryResults |-> outcome.queryResults,
                                               edgeResults |-> outcome.edgeResults]],
             ServerMsg("showResults", id, outcome))
      ELSE emitToClient(
             [h1 EXCEPT !.pageState.isQueryRunning = FALSE,
                        !.pageState.errorMessage = outcome.error],
             ServerMsg("showQueryError", id, outcome))

\* setView(mode), setQuery(text), getPageState()
serverSetView(h, view) == [h EXCEPT !.pageState.view = view]
serverSetQuery(h, text) == [h EXCEPT !.pageState.query = text]
serverGetPageState(h) == emitToClient(h, ServerMsg("setPageState", 0, h.pageState))

HostBecomes(after) ==
  \E h \in {after} :
    /\ _pageState' = h.pageState
    /\ executing' = h.executing
    /\ sent' = h.sent
    /\ UNCHANGED <<clientVars, shellVars, editorVars, treeVars>>

ServerQuery ==
  \E text \in Queries \cup {"g.E()"} :
    /\ _pageState.runningQueryId < MaxQueryId
    /\ HostBecomes(serverQuery(Host, text))
    /\ lastEvent' = Event("serverQuery", _pageState.runningQueryId + 1)

ServerComplete ==
  \E id \in executing, outcome \in Outcomes :
    /\ HostBecomes(serverComplete(Host, id, outcome))
    /\ lastEvent' = Event("serverComplete", id)

ServerSetView ==
  \E view \in Views :
    /\ HostBecomes(serverSetView(Host, view))
    /\ lastEvent' = Event("serverSetView", 0)

ServerSetQuery ==
  \E text \in Queries \cup {"g.E()"} :
    /\ HostBecomes(serverSetQuery(Host, text))
    /\ lastEvent' = Event("serverSetQuery", 0)

ServerGetPageState ==
  /\ HostBecomes(serverGetPageState(Host))
  /\ lastEvent' = Event("serverGetPageState", 0)

NextHost ==
  \/ ServerQuery
  \/ ServerComplete
  \/ ServerSetView
  \/ ServerSetQuery
  \/ ServerGetPageState

SpecHost == Init /\ [][NextHost]_vars

\* The render client with query calls and replies only (no page state
\* snapshots, no view toggles).
NextQueries ==
  \/ ShowResults
  \/ ShowQueryError
  \/ Query
  \/ ForceEnd

SpecQueries == Init /\ [][NextQueries]_vars

(***************************************************************************)
(* showResults and displayGraph as functions of the result set: the page   *)
(* state the host holds is any of the result sets below, and the client    *)
(* is handed it in a 'setPageState' message.                               *)
(***************************************************************************)
\* the i-th vertex and the k-th edge of a generated result set
VertexN(i) == Vertex(ToString(i))
EdgeN(k, inV, outV) == Edge("e" \o ToString(k), ToString(inV), ToString(outV))

\* n vertices with the ids 1..n
Vertices(n) == [i \in 1..n |-> VertexN(i)]

\* m edges with the ids first..first+m-1 around the ring of the vertex ids
\* 1..n: edge k goes from vertex k mod n to the next one
Ring(first, m, n) ==
  [j \in 1..m |-> EdgeN(first + j - 1, ((first + j - 2) % n) + 1, ((first + j - 1) % n) + 1)]

\* a result set: n vertices followed by the primary edges, and the
\* out-of-band edge list
ResultSet(n, primary, extra) ==
  [queryResults |-> Vertices(n) \o primary, edgeResults |-> extra]

\* Small result sets: up to MaxSmall vertices, up to MaxSmall primary edges
\* and up to MaxSmall out-of-band edges that continue the ring of the primary
\* ones or, with repeat, start it again; the ring runs over up to MaxSmall
\* ids, so some edges name a vertex the result set does not hold.
SmallResultSets ==
  {ResultSet(n, Ring(1, p, r), Ring(IF repeat THEN 1 ELSE p + 1, x, r)) :
     n \in 0..MaxSmall, r \in 1..MaxSmall, p \in 0..MaxSmall, x \in 0..MaxSmall,
     repeat \in BOOLEAN}

\* Large result sets, at the caps: maxNodes vertices, and more (by MaxOver,
\* and by 50: the 350 vertices of the example in section 8 of the
\* specification), without edges and with a ring through all of them; two
\* vertices with maxEdges edges between them, and more; and two vertices
\* with an edge to an absent third one ahead of maxEdges edges between them.
LargeResultSets ==
  {ResultSet(n, <<>>, <<>>) : n \in {maxNodes, maxNodes + MaxOver, maxNodes + 50}}
  \cup {ResultSet(n, Ring(1, n - 1, n), Ring(n, 1, n)) : n \in {maxNodes + MaxOver}}
  \cup {ResultSet(2, Ring(1, maxEdges - 1, 2), Ring(maxEdges, x, 2)) : x \in 1..(1 + MaxOver)}
  \cup {ResultSet(2, Ring(2, 1, 3), Ring(1, maxEdges, 2))}

\* Result sets whose vertices share ids: the vertices 1..n twice, and a ring
\* of edges through their ids.
TwiceResultSets ==
  {[queryResults |-> Vertices(n) \o Vertices(n) \o Ring(1, p, n), edgeResults |-> <<>>] :
     n \in 1..MaxSmall, p \in 1..MaxSmall}

ResultSets == SmallResultSets \cup LargeResultSets \cup TwiceResultSets

InitRender ==
  /\ _currentQueryId = 0
  /\ _force = 0
  /\ _graphView = FALSE
  /\ state = "empty"
  /\ jsonResults = <<>>
  /\ queryError = ""
  /\ stats = <<>>
  /\ svg = NoGraph
  /\ alpha = [f \in ForceIds |-> FALSE]
  /\ emitted = <<>>
  /\ uncaught = FALSE
  /\ lastEvent = NoEvent
  /\ maxIssued = 0
  /\ \E results \in ResultSets :
       _pageState = [query |-> defaultQuery, isQueryRunning |-> FALSE, runningQueryId |-> 0,
                     results |-> results, errorMessage |-> undefined, view |-> "graph"]
  /\ executing = {}
  /\ sent = <<>>
  /\ InitShell
  /\ InitEditor
  /\ InitTree

\* the client receives the page state the host holds
RestorePageState ==
  /\ Becomes(onSetPageState(This, _pageState))
  /\ lastEvent' = PageStateEvent(_pageState)
  /\ UNCHANGED maxIssued

NextRender ==
  \/ RestorePageState
  \/ ForceEnd

SpecRender == InitRender /\ [][NextRender]_vars

(***************************************************************************)
(* The render client that is told of a running query: page states with     *)
(* isQueryRunning set (carrying whatever results and error the host still  *)
(* holds), query calls and replies.                                        *)
(***************************************************************************)
RunningPageStates ==
  {[query |-> q, isQueryRunning |-> TRUE, runningQueryId |-> k,
    results |-> [queryResults |-> r, edgeResults |-> <<>>],
    errorMessage |-> m, view |-> v] :
      q \in Queries, k \in QueryIds, r \in QueryResults,
      m \in {undefined} \cup Errors, v \in Views}

SetRunningPageState ==
  \E pageState \in RunningPageStates :
    /\ Becomes(onSetPageState(This, pageState))
    /\ lastEvent' = PageStateEvent(pageState)
    /\ UNCHANGED maxIssued

NextSnapshots ==
  \/ SetRunningPageState
  \/ ShowResults
  \/ ShowQueryError
  \/ Query
  \/ ForceEnd

SpecSnapshots == Init /\ [][NextSnapshots]_vars

(***************************************************************************)
(* The Mongo shell wrapper (class Shell, src/mongo/shell.ts).               *)
(*                                                                         *)
(* A text is the sequence of its lines, each ended by os.EOL; a chunk of   *)
(* stdout is such a text.  The shell process is the environment: it reads  *)
(* what was written to it in order and answers each script with the        *)
(* script's output followed by the echoed sentinel, in one 'data' chunk or *)
(* in two.  The scripts of the domain are single lines without surrounding *)
(* blanks, which convertToSingleLine returns as they are.                  *)
(***************************************************************************)
MaxExec == 2

endOfDataSentinelBase == "$EOD$"
typeItForMore == "Type \"it\" for more"
execPath == "mongo"

Scripts == {"use abc", "db.c.find()"}
ErrorCodes == {"ENOENT", "EACCES"}

\* what the shell process prints for a script, ahead of the sentinel
ShellOutput(script) ==
  IF script = "use abc"
  THEN <<"switched to db abc">>
  ELSE <<"{ a: 0 }", "", "{ a: 1 }", typeItForMore>>

endOfDataSentinel(id) == endOfDataSentinelBase \o ToString(id)

notFoundMessage == "This functionality requires the Mongo DB shell, but we could not find it. Attempted command: " \o execPath
timedOutMessage(script) == "Timed out executing MongoDB command " \o script

\* the values onResult fires: the text of a finished execution, the Error of
\* the process's 'error' event, the exit code of 'exit', what stderr sends
DataResult(lines) == [kind |-> "data", code |-> undefined, result |-> lines]
ErrorResult(code) == [kind |-> "error", code |-> code, result |-> undefined]
ExitResult == [kind |-> "exit", code |-> undefined, result |-> undefined]
StderrResult == [kind |-> "stderr", code |-> undefined, result |-> undefined]

NewExec(script) ==
  [script |-> script, status |-> "pending", result |-> <<>>, error |-> "",
   raw |-> <<>>, listening |-> TRUE, handler |-> TRUE, executed |-> FALSE]

\* the promise's resolve (c) and reject (e): a settled promise stays as it is
resolve(ex, lines) == IF ex.status = "pending" THEN [ex EXCEPT !.status = "resolved", !.result = lines] ELSE ex
reject(ex, error) == IF ex.status = "pending" THEN [ex EXCEPT !.status = "rejected", !.error = error] ELSE ex

filterLines_keepsPrompt(lines) == SelectSeq(lines, LAMBDA line : line # "")

\* .filter(line => !!line && line !== 'Type "it" for more')
filterLines(lines) == SelectSeq(lines, LAMBDA line : line # "" /\ line # typeItForMore)

\* lines[lines.length - 1] === 'Type "it" for more' ? lines.splice(lines.length - 1, 1) : lines
spliceLast(lines) ==
  IF lines # <<>> /\ lines[Len(lines)] = typeItForMore
  THEN <<lines[Len(lines)]>>
  ELSE lines

\* the listener exec subscribes to onResult
onResultListener(ex, result) ==
  IF ~ex.listening THEN ex
  ELSE LET disposed == [ex EXCEPT !.listening = FALSE]
       IN IF result.code # undefined
          THEN  [reject(disposed, IF result.code = "ENOENT" THEN notFoundMessage ELSE result.code)
                  EXCEPT !.handler = FALSE]
          ELSE IF result.kind # "data"
          THEN disposed        \* result.result.split throws: nothing settles, the timer stays
          ELSE [resolve([disposed EXCEPT !.executed = TRUE, !.raw = result.result],
                  spliceLast(filterLines(result.result)))
                  EXCEPT !.handler = FALSE]

\* this.onResult.fire(result)
fire(listeners, result) == [k \in DOMAIN listeners |-> onResultListener(listeners[k], result)]

RECURSIVE join(_)
join(chunks) == IF chunks = <<>> THEN <<>> ELSE Head(chunks) \o join(Tail(chunks))

endsWith(data, sentinel) == data # <<>> /\ data[Len(data)] = sentinel

\* exec(script)
Exec ==
  \E script \in Scripts :
    /\ executionId < MaxExec
    /\ executionId' = executionId + 1
    /\ stdin' = IF mongoShell \in {"starting", "running"}
                THEN Append(stdin, [script |-> script, executionId |-> executionId + 1])
                ELSE stdin
    /\ execs' = Append(execs, NewExec(script))
    /\ lastEvent' = Event("exec", executionId + 1)
    /\ UNCHANGED <<buffers, mongoShell, stdout>>
    /\ UNCHANGED <<clientVars, hostVars, editorVars, treeVars>>

\* the shell process runs the next script written to it
ProcessRun ==
  /\ mongoShell \in {"starting", "running"}
  /\ stdin # <<>>
  /\ LET out == ShellOutput(Head(stdin).script)
         sentinel == endOfDataSentinel(Head(stdin).executionId)
     IN \E chunks \in {<<out \o <<sentinel>>>>, <<out, <<sentinel>>>>} :
          stdout' = stdout \o chunks
  /\ stdin' = Tail(stdin)
  /\ mongoShell' = "running"
  /\ lastEvent' = Event("run", Head(stdin).executionId)
  /\ UNCHANGED <<executionId, buffers, execs>>
  /\ UNCHANGED <<clientVars, hostVars, editorVars, treeVars>>

\* mongoShell.stdout.on('data', ...)
StdoutData ==
  /\ stdout # <<>>
  /\ LET data == Head(stdout)
     IN IF endsWith(data, endOfDataSentinel(executionId))
        THEN /\ execs' = fire(execs, DataResult(join(buffers) \o SubSeq(data, 1, Len(data) - 1)))
             /\ buffers' = <<>>
        ELSE /\ buffers' = Append(buffers, data)
             /\ execs' = execs
  /\ stdout' = Tail(stdout)
  /\ lastEvent' = Event("data", executionId)
  /\ UNCHANGED <<executionId, mongoShell, stdin>>
  /\ UNCHANGED <<clientVars, hostVars, editorVars, treeVars>>

\* once(mongoShell, 'error', ...): the process could not be spawned
ProcessError ==
  \E code \in ErrorCodes :
    /\ mongoShell = "starting"
    /\ mongoShell' = code
    /\ execs' = fire(execs, ErrorResult(code))
    /\ stdin' = <<>>
    /\ lastEvent' = [Event("error", executionId) EXCEPT !.error = code]
    /\ UNCHANGED <<executionId, buffers, stdout>>
    /\ UNCHANGED <<clientVars, hostVars, editorVars, treeVars>>

\* once(mongoShell, 'exit', ...)
ProcessExit ==
  /\ mongoShell \in {"starting", "running"}
  /\ mongoShell' = "exited"
  /\ execs' = fire(execs, ExitResult)
  /\ stdin' = <<>>
  /\ lastEvent' = Event("exit", executionId)
  /\ UNCHANGED <<executionId, buffers, stdout>>
  /\ UNCHANGED <<clientVars, hostVars, editorVars, treeVars>>

\* mongoShell.stderr.on('data', ...); the 'close' handler of stderr fires onResult
\* in the same way, with a value that has neither code nor result
StderrData ==
  /\ mongoShell = "running"
  /\ execs' = fire(execs, StderrResult)
  /\ lastEvent' = Event("stderr", executionId)
  /\ UNCHANGED <<executionId, buffers, mongoShell, stdin, stdout>>
  /\ UNCHANGED <<clientVars, hostVars, editorVars, treeVars>>

\* the setTimeout callback of an execution
Timeout ==
  \E k \in DOMAIN execs :
    /\ execs[k].handler
    /\ execs' = [execs EXCEPT
                   ![k] = [(IF ~execs[k].executed
                            THEN reject(execs[k], timedOutMessage(execs[k].script))
                            ELSE execs[k])
                             EXCEPT !.handler = FALSE]]
    /\ lastEvent' = Event("timeout", k)
    /\ UNCHANGED <<executionId, buffers, mongoShell, stdin, stdout>>
    /\ UNCHANGED <<clientVars, hostVars, editorVars, treeVars>>

NextShell ==
  \/ Exec
  \/ ProcessRun
  \/ StdoutData
  \/ ProcessError
  \/ ProcessExit
  \/ StderrData
  \/ Timeout

SpecShell == Init /\ [][NextShell]_vars

(***************************************************************************)
(* The editor manager (class EditorManager, src/unnamed/part_003).          *)
(*                                                                         *)
(* showDocument, updateEditor, onDidSaveTextDocument and updateToCloud are *)
(* followed per document through their awaits.  The save event of a        *)
(* document is delivered to onDidSaveTextDocument before the promise of    *)
(* that save resolves.  Per document one updateEditor runs at a time, and  *)
(* one onDidSaveTextDocument waits at a time.                              *)
(***************************************************************************)
Responses == {"Upload", "Always upload", "Cancel", undefined}
Confirmations == {"Yes", "Cancel", undefined}

EditorEvent(name, doc, response, error) ==
  [Event(name, doc) EXCEPT !.response = response, !.error = error]

\* loadPersistedEditor(doc.uri, context) throws: the document is persisted
\* and its entity is not found on the tree
loadPersistedEditorThrows(doc, found) ==
  doc \notin fileMap /\ doc \in persisted /\ ~found

\* the filePath of onDidSaveTextDocument is defined: a key of fileMap, or a
\* persisted editor that loadPersistedEditor has put into fileMap
filePath(doc, found) ==
  doc \in fileMap \/ (doc \in persisted /\ found)

\* what onDidSaveTextDocument does with a save event up to its first await
SaveOutcome(doc, found) ==
  IF ~ignoreSave /\ filePath(doc, found)
  THEN IF showSavePrompt THEN "prompt" ELSE "update"
  ELSE "ignored"

SaveEvent(name, doc, found) ==
  [Event(name, doc) EXCEPT
     !.error = IF loadPersistedEditorThrows(doc, found) THEN "Error" ELSE "",
     !.outcome = SaveOutcome(doc, found)]

onDidSaveTextDocument_promptsAgain(doc, found) ==
  /\ fileMap' = IF doc \notin fileMap /\ doc \in persisted /\ found
                THEN fileMap \cup {doc}
                ELSE fileMap
  /\ handler' = IF ~ignoreSave /\ filePath(doc, found)
                THEN [handler EXCEPT ![doc] = "prompt"]
                ELSE handler

\* onDidSaveTextDocument(context, doc) up to its first await
onDidSaveTextDocument(doc, found) ==
  /\ fileMap' = IF doc \notin fileMap /\ doc \in persisted /\ found
                THEN fileMap \cup {doc}
                ELSE fileMap
  /\ handler' = IF SaveOutcome(doc, found) = "ignored"
                THEN handler
                ELSE [handler EXCEPT ![doc] = SaveOutcome(doc, found)]

ShowDocument_mapsBeforeAsking ==
  \E doc \in Docs, overwriteFlag \in Confirmations :
    /\ updating[doc] = "idle"
    /\ fileMap' = fileMap \cup {doc}
    /\ persisted' = persisted \cup fileMap'
    /\ IF isDirty[doc] /\ overwriteFlag # "Yes"
       THEN /\ lastEvent' = EditorEvent("showDocument", doc, overwriteFlag, "UserCancelledError")
            /\ UNCHANGED updating
       ELSE /\ updating' = [updating EXCEPT ![doc] = "writing"]
            /\ lastEvent' = EditorEvent("showDocument", doc, overwriteFlag, "")
    /\ UNCHANGED <<ignoreSave, showSavePrompt, isDirty, handler>>
    /\ UNCHANGED <<clientVars, hostVars, shellVars, treeVars>>

\* showDocument(context, editor, fileName) up to the await of editor.getData;
\* from there getData, showTextDocument and the writeToEditor of updateEditor
\* are awaited
ShowDocument ==
  \E doc \in Docs, overwriteFlag \in Confirmations :
    /\ updating[doc] = "idle"
    /\ IF isDirty[doc] /\ overwriteFlag # "Yes"
       THEN /\ lastEvent' = EditorEvent("showDocument", doc, overwriteFlag, "UserCancelledError")
            /\ UNCHANGED <<fileMap, persisted, updating>>
       ELSE /\ fileMap' = fileMap \cup {doc}
            /\ persisted' = persisted \cup fileMap'
            /\ updating' = [updating EXCEPT ![doc] = "writing"]
            /\ lastEvent' = EditorEvent("showDocument", doc, overwriteFlag, "")
    /\ UNCHANGED <<ignoreSave, showSavePrompt, isDirty, handler>>
    /\ UNCHANGED <<clientVars, hostVars, shellVars, treeVars>>

\* getData, showTextDocument or writeToEditor throws
WriteThrows ==
  \E doc \in Docs :
    /\ updating[doc] = "writing"
    /\ updating' = [updating EXCEPT ![doc] = "idle"]
    /\ lastEvent' = EditorEvent("writeToEditor", doc, "", "Error")
    /\ UNCHANGED <<ignoreSave, showSavePrompt, fileMap, persisted, isDirty, handler>>
    /\ UNCHANGED <<clientVars, hostVars, shellVars, treeVars>>

\* updateEditor: writeToEditor has finished; ignoreSave is set and the save begins
BeginSave ==
  \E doc \in Docs :
    /\ updating[doc] = "writing"
    /\ updating' = [updating EXCEPT ![doc] = "saving"]
    /\ isDirty' = [isDirty EXCEPT ![doc] = TRUE]
    /\ ignoreSave' = TRUE
    /\ lastEvent' = Event("save", doc)
    /\ UNCHANGED <<showSavePrompt, fileMap, persisted, handler>>
    /\ UNCHANGED <<clientVars, hostVars, shellVars, treeVars>>

\* the save event of a save that updateEditor made
OwnSaveEvent ==
  \E doc \in Docs, found \in BOOLEAN :
    /\ updating[doc] = "saving"
    /\ handler[doc] = "none"
    /\ updating' = [updating EXCEPT ![doc] = "saved"]
    /\ isDirty' = [isDirty EXCEPT ![doc] = FALSE]
    /\ onDidSaveTextDocument(doc, found)
    /\ lastEvent' = SaveEvent("onDidSaveTextDocument", doc, found)
    /\ UNCHANGED <<ignoreSave, showSavePrompt, persisted>>
    /\ UNCHANGED <<clientVars, hostVars, shellVars, treeVars>>

\* updateEditor: the promise of document.save() is resolved, the finally block runs
EndSave ==
  \E doc \in Docs :
    /\ updating[doc] = "saved"
    /\ updating' = [updating EXCEPT ![doc] = "idle"]
    /\ ignoreSave' = FALSE
    /\ lastEvent' = Event("saved", doc)
    /\ UNCHANGED <<showSavePrompt, fileMap, persisted, isDirty, handler>>
    /\ UNCHANGED <<clientVars, hostVars, shellVars, treeVars>>

SaveThrows_withoutFinally ==
  \E doc \in Docs :
    /\ updating[doc] = "saving"
    /\ updating' = [updating EXCEPT ![doc] = "idle"]
    /\ lastEvent' = EditorEvent("saved", doc, "", "Error")
    /\ UNCHANGED <<ignoreSave, showSavePrompt, fileMap, persisted, isDirty, handler>>
    /\ UNCHANGED <<clientVars, hostVars, shellVars, treeVars>>

\* updateEditor: document.save() throws, the finally block runs
SaveThrows ==
  \E doc \in Docs :
    /\ updating[doc] = "saving"
    /\ updating' = [updating EXCEPT ![doc] = "idle"]
    /\ ignoreSave' = FALSE
    /\ lastEvent' = EditorEvent("saved", doc, "", "Error")
    /\ UNCHANGED <<showSavePrompt, fileMap, persisted, isDirty, handler>>
    /\ UNCHANGED <<clientVars, hostVars, shellVars, treeVars>>

\* the user changes the text of a document
UserEdit ==
  \E doc \in Docs :
    /\ ~isDirty[doc]
    /\ isDirty' = [isDirty EXCEPT ![doc] = TRUE]
    /\ lastEvent' = Event("userEdit", doc)
    /\ UNCHANGED <<ignoreSave, updating, showSavePrompt, fileMap, persisted, handler>>
    /\ UNCHANGED <<clientVars, hostVars, shellVars, treeVars>>

\* the user saves a document: its save event
UserSave ==
  \E doc \in Docs, found \in BOOLEAN :
    /\ updating[doc] \notin {"saving", "saved"}
    /\ handler[doc] = "none"
    /\ isDirty' = [isDirty EXCEPT ![doc] = FALSE]
    /\ onDidSaveTextDocument(doc, found)
    /\ lastEvent' = SaveEvent("userSave", doc, found)
    /\ UNCHANGED <<ignoreSave, updating, showSavePrompt, persisted>>
    /\ UNCHANGED <<clientVars, hostVars, shellVars, treeVars>>

AnswerPrompt_uploadsAnyway ==
  \E doc \in Docs, response \in Responses :
    /\ handler[doc] = "prompt"
    /\ handler' = [handler EXCEPT
                     ![doc] = IF response = "Always upload" THEN "setting" ELSE "update"]
    /\ lastEvent' = EditorEvent("answer", doc, response, "")
    /\ UNCHANGED <<ignoreSave, updating, showSavePrompt, fileMap, persisted, isDirty>>
    /\ UNCHANGED <<clientVars, hostVars, shellVars, treeVars>>

\* onDidSaveTextDocument: the user has answered the save prompt
AnswerPrompt ==
  \E doc \in Docs, response \in Responses :
    /\ handler[doc] = "prompt"
    /\ handler' = [handler EXCEPT
                     ![doc] = IF response = "Always upload" THEN "setting"
                              ELSE IF response = "Upload" THEN "update"
                              ELSE "none"]
    /\ lastEvent' = EditorEvent("answer", doc, response,
                                IF response \in {"Upload", "Always upload"}
                                THEN "" ELSE "UserCancelledError")
    /\ UNCHANGED <<ignoreSave, updating, showSavePrompt, fileMap, persisted, isDirty>>
    /\ UNCHANGED <<clientVars, hostVars, shellVars, treeVars>>

\* onDidSaveTextDocument: the update of the setting to false has been made;
\* updateToCloud begins and awaits editor.update
SettingUpdated ==
  \E doc \in Docs :
    /\ handler[doc] = "setting"
    /\ handler' = [handler EXCEPT ![doc] = "update"]
    /\ showSavePrompt' = FALSE
    /\ lastEvent' = Event("settingUpdated", doc)
    /\ UNCHANGED <<ignoreSave, updating, fileMap, persisted, isDirty>>
    /\ UNCHANGED <<clientVars, hostVars, shellVars, treeVars>>

\* updateToCloud: editor.update has answered or thrown; when it has answered
\* and an editor shows the document, updateEditor begins
UpdateToCloud ==
  \E doc \in Docs, outcome \in {"visible", "closed", "throws"} :
    /\ handler[doc] = "update"
    /\ updating[doc] = "idle"
    /\ handler' = [handler EXCEPT ![doc] = "none"]
    /\ updating' = IF outcome = "visible"
                   THEN [updating EXCEPT ![doc] = "writing"]
                   ELSE updating
    /\ lastEvent' = EditorEvent("updateToCloud", doc, "",
                                IF outcome = "throws" THEN "Error" ELSE "")
    /\ UNCHANGED <<ignoreSave, showSavePrompt, fileMap, persisted, isDirty>>
    /\ UNCHANGED <<clientVars, hostVars, shellVars, treeVars>>

\* the window is reloaded: a new EditorManager over the same globalState;
\* whatever the old one awaited is gone
Reload ==
  /\ fileMap # {}
  /\ fileMap' = {}
  /\ ignoreSave' = FALSE
  /\ updating' = [doc \in Docs |-> "idle"]
  /\ handler' = [doc \in Docs |-> "none"]
  /\ lastEvent' = Event("reload", 0)
  /\ UNCHANGED <<showSavePrompt, persisted, isDirty>>
  /\ UNCHANGED <<clientVars, hostVars, shellVars, treeVars>>

NextEditor ==
  \/ Reload
  \/ ShowDocument
  \/ WriteThrows
  \/ BeginSave
  \/ OwnSaveEvent
  \/ EndSave
  \/ SaveThrows
  \/ UserEdit
  \/ UserSave
  \/ AnswerPrompt
  \/ SettingUpdated
  \/ UpdateToCloud

SpecEditor == Init /\ [][NextEditor]_vars

(***************************************************************************)
(* A paged DocumentDB tree item (class DocDBTreeItemBase,                   *)
(* src/docdb/tree/DocDBTreeItemBase.ts).                                    *)
(*                                                                         *)
(* The tree runs one load of an item at a time, so loadMoreChildrenImpl is *)
(* one step.  A QueryIterator is the query it was made for: the page size  *)
(* it was given, the resources found (numbered 1..total), how many of them *)
(* it has handed out, and whether it was asked at all.                     *)
(***************************************************************************)
MaxItems == 3
MaxBatchSize == 4

\* the values of the batch size setting
BatchSizeSettings == {1, 2}

\* getIterator(client, { maxItemCount })
getIterator(maxItemCount, total) ==
  [maxItemCount |-> maxItemCount, total |-> total, pos |-> 0, fetched |-> FALSE]

\* (await iterator.fetchNext()).resources
resources(iterator) ==
  [i \in 1..(Min(iterator.pos + iterator.maxItemCount, iterator.total) - iterator.pos)
     |-> iterator.pos + i]

\* the iterator after fetchNext
fetchNext(iterator) ==
  [iterator EXCEPT !.pos = Min(iterator.pos + iterator.maxItemCount, iterator.total),
                   !.fetched = TRUE]

\* iterator.hasMoreResults()
hasMoreResults(iterator) == ~iterator.fetched \/ iterator.pos < iterator.total

ThisTree ==
  [_hasMoreChildren |-> _hasMoreChildren, _iterator |-> _iterator,
   _batchSize |-> _batchSize, returned |-> returned]

\* lines 37-41
iteratorOf(t, clearCache, total) ==
  IF clearCache \/ t._iterator = NoIterator
  THEN getIterator(t._batchSize, total)
  ELSE t._iterator

loadMoreChildrenImpl_restarts(t, clearCache, total) ==
  [_hasMoreChildren |-> hasMoreResults(fetchNext(getIterator(t._batchSize, total))),
   _iterator |-> fetchNext(getIterator(t._batchSize, total)),
   _batchSize |-> t._batchSize * 2,
   returned |-> resources(getIterator(t._batchSize, total))]

\* loadMoreChildrenImpl(clearCache); total is what the query of a new iterator finds
loadMoreChildrenImpl(t, clearCache, total) ==
  [_hasMoreChildren |-> hasMoreResults(fetchNext(iteratorOf(t, clearCache, total))),
   _iterator |-> fetchNext(iteratorOf(t, clearCache, total)),
   _batchSize |-> t._batchSize * 2,
   returned |-> resources(iteratorOf(t, clearCache, total))]

\* loadMoreChildrenImpl(clearCache) when fetchNext throws
loadMoreChildrenImplThrows(t, clearCache, total) ==
  [t EXCEPT !._hasMoreChildren = IF clearCache \/ t._iterator = NoIterator
                                 THEN TRUE
                                 ELSE t._hasMoreChildren,
            !._iterator = iteratorOf(t, clearCache, total)]

TreeEvent(name, clearCache, error) ==
  [Event(name, 0) EXCEPT !.response = IF clearCache THEN "clearCache" ELSE "",
                         !.error = error]

TreeBecomes(after) ==
  \E t \in {after} :
    /\ _hasMoreChildren' = t._hasMoreChildren
    /\ _iterator' = t._iterator
    /\ _batchSize' = t._batchSize
    /\ returned' = t.returned
    /\ UNCHANGED <<clientVars, hostVars, shellVars, editorVars>>

LoadMoreChildren ==
  \E clearCache \in BOOLEAN, total \in 0..MaxItems :
    /\ _batchSize <= MaxBatchSize
    /\ TreeBecomes(loadMoreChildrenImpl(ThisTree, clearCache, total))
    /\ lastEvent' = TreeEvent("loadMoreChildren", clearCache, "")

LoadMoreChildrenThrows ==
  \E clearCache \in BOOLEAN, total \in 0..MaxItems :
    /\ TreeBecomes(loadMoreChildrenImplThrows(ThisTree, clearCache, total))
    /\ lastEvent' = TreeEvent("loadMoreChildren", clearCache, "Error")

\* refreshImpl()
Refresh ==
  \E setting \in BatchSizeSettings :
    /\ TreeBecomes([ThisTree EXCEPT !._batchSize = setting])
    /\ lastEvent' = Event("refresh", 0)

NextTree ==
  \/ LoadMoreChildren
  \/ LoadMoreChildrenThrows
  \/ Refresh

SpecTree == Init /\ [][NextTree]_vars

(***************************************************************************)
(* Properties of the render client.                                        *)
(***************************************************************************)
Replies == {"showResults", "showQueryError"}
Running == {f \in ForceIds : alpha[f]}

\* the last handler rendered a graph: an accepted result set with vertices,
\* drawn without an exception
JustRendered ==
  /\ state = "graph-results"
  /\ svg # NoGraph
  /\ \/ lastEvent.name = "showResults" /\ lastEvent.queryId = _currentQueryId
     \/ lastEvent.name = "setPageState"

\* C1: with query calls and replies in any order, what is displayed changes
\* only by a query call or by a reply that carries the id of the most recent
\* query message (ids are issued in increasing order here, so that is the
\* highest id issued); a reply for any other id changes nothing displayed.
C1_LastQueryWins ==
  [][/\ lastEvent'.name = "query" => lastEvent'.queryId > maxIssued
     /\ <<state, jsonResults, queryError, stats, svg>>' # <<state, jsonResults, queryError, stats, svg>>
          => \/ lastEvent'.name = "query"
             \/ lastEvent'.name \in Replies /\ lastEvent'.queryId = maxIssued]_vars

\* a second query has superseded the first and its reply is displayed
C1_Witness ==
  /\ lastEvent.name = "showResults"
  /\ lastEvent.queryId = maxIssued
  /\ maxIssued >= 2
  /\ state = "graph-results"

\* C2: a showResults or showQueryError whose id differs from the current query
\* id leaves the state, the JSON text, the error text, the stats line, the
\* drawn graph, the simulation and the current query id unchanged and emits
\* log messages only.
C2_StaleReplyDiscarded ==
  [][(lastEvent'.name \in Replies /\ lastEvent'.queryId # _currentQueryId)
       => /\ UNCHANGED <<state, jsonResults, queryError, stats, svg, _force, alpha,
                         _currentQueryId, _graphView>>
          /\ \A i \in 1..Len(emitted') : emitted'[i].msg = "log"]_vars

\* an error reply for an older id has arrived while the results of the
\* current id are displayed
C2_Witness ==
  /\ lastEvent.name = "showQueryError"
  /\ lastEvent.queryId < _currentQueryId
  /\ state = "graph-results"
  /\ svg # NoGraph

\* C3: every 'query' message carries an id greater than the id of every
\* 'query' message emitted before it.
C3_QueryIdsIncrease ==
  [][\A i \in 1..Len(emitted') :
       (lastEvent'.name = "query" /\ emitted'[i].msg = "query")
         => emitted'[i].id > maxIssued]_vars

\* C4: the host emits showResults or showQueryError only for the query
\* started last: a reply it emits never carries the id of a query that a
\* newer query has superseded.
C4_HostNeverEmitsSuperseded ==
  [][\A i \in 1..Len(sent') :
       sent'[i].msg \in Replies => sent'[i].id = _pageState.runningQueryId]_vars

\* two queries overlapped: the older one has returned and nothing was emitted
C4_Witness ==
  /\ lastEvent.name = "serverComplete"
  /\ lastEvent.queryId < _pageState.runningQueryId
  /\ _pageState.runningQueryId \in executing
  /\ sent = <<>>

\* C5: whenever the socket connects, the client emits 'getPageState'.
C5_ConnectRequestsPageState ==
  [][lastEvent'.name = "connect"
       => \E i \in 1..Len(emitted') : emitted'[i].msg = "getPageState"]_vars

\* C6 as stated: error, json-results and graph-results are entered only from
\* querying, querying from any state, and empty is never re-entered.
C6_OnlyFromQuerying ==
  [][state' # state
       => \/ state' = "querying"
          \/ state = "querying" /\ state' \in {"error", "json-results", "graph-results"}]_vars

\* C6 amended: the state changes to querying only by a query call or a page
\* state with a running query; to error, json-results or graph-results only
\* by a reply that carries the current query id or by a page state without a
\* running query, from whatever state the client is in; never to empty.
C6_StateChanges ==
  [][state' # state
       => /\ state' # "empty"
          /\ state' = "querying"
               => \/ lastEvent'.name = "query"
                  \/ lastEvent'.name = "setPageState" /\ lastEvent'.isQueryRunning
          /\ state' \in {"error", "json-results", "graph-results"}
               => \/ lastEvent'.name \in Replies /\ lastEvent'.queryId = _currentQueryId
                  \/ lastEvent'.name = "setPageState" /\ ~lastEvent'.isQueryRunning]_vars

\* a page state has taken the client from empty straight to results: no
\* query was ever issued and no running snapshot was ever received
C6_Witness ==
  /\ lastEvent.name = "setPageState"
  /\ state = "graph-results"
  /\ _currentQueryId = 0

\* C7: in querying and in error no vertex, edge or label element is displayed.
C7_ClearedOnQueryingAndError ==
  state \in {"querying", "error"} => svg = NoGraph

\* a query was issued after a graph had been rendered
C7_Witness ==
  /\ state = "querying"
  /\ lastEvent.name = "query"
  /\ stats # <<>>
  /\ svg = NoGraph

\* C8: in querying and in error no force simulation is running.
C8_SimulationTornDown ==
  state \in {"querying", "error"} => Running = {}

\* C9: at most one simulation is running, the one of this._force, and right
\* after a render exactly one is.
C9_OneSimulation ==
  /\ Cardinality(Running) <= 1
  /\ Running \subseteq {_force}
  /\ JustRendered => Running = {_force}

\* a render that replaced the force object of an earlier render
C9_Witness ==
  /\ JustRendered
  /\ _force = 2
  /\ Running = {2}

\* C10: an accepted result set without a record of type "vertex" - in a
\* showResults reply for the current id, or in a page state without running
\* query and without error, whatever its view - puts the client in
\* json-results and renders nothing: graph elements, force object, simulations
\* and stats line stay as they were.
C10_NoVerticesForcesJson ==
  [][(/\ lastEvent'.vertices = 0
      /\ \/ lastEvent'.name = "showResults" /\ lastEvent'.queryId = _currentQueryId
         \/ /\ lastEvent'.name = "setPageState"
            /\ ~lastEvent'.isQueryRunning
            /\ ~lastEvent'.hasError)
       => /\ state' = "json-results"
          /\ UNCHANGED <<svg, _force, alpha, stats>>]_vars

\* a page state whose view is 'graph' and whose results hold no vertex
C10_Witness ==
  /\ lastEvent.name = "setPageState"
  /\ lastEvent.view = "graph"
  /\ ~lastEvent.isQueryRunning
  /\ ~lastEvent.hasError
  /\ lastEvent.vertices = 0
  /\ jsonResults # JSONstringify(<<>>)
  /\ _graphView
  /\ state = "json-results"

(***************************************************************************)
(* What an accepted reply displays.                                        *)
(***************************************************************************)
\* the last handler was given a result set and took it: a showResults for
\* the current query id, or a page state without running query and error
AcceptedResults ==
  \/ lastEvent.name = "showResults" /\ lastEvent.queryId = _currentQueryId
  \/ lastEvent.name = "setPageState" /\ ~lastEvent.isQueryRunning /\ ~lastEvent.hasError

\* the records of a given type in a list, and the ids of the vertices in it
OfType(nodes, type) == SelectSeq(nodes, LAMBDA n : n.type = type)
VertexIds(nodes) == {nodes[i].id : i \in {j \in 1..Len(nodes) : nodes[j].type = "vertex"}}

\* the edges of the last event's result set, primary first, that join two of
\* its vertices
JoiningEdges ==
  SelectSeq(OfType(lastEvent.queryResults, "edge") \o lastEvent.edgeResults,
            LAMBDA e : /\ e.inV \in VertexIds(lastEvent.queryResults)
                       /\ e.outV \in VertexIds(lastEvent.queryResults))

\* C11: after an accepted result set with at least one record of type
\* "vertex" (and no null in its edge lists) the state is graph-results, the
\* vertex and label elements are the vertices of that result set in order,
\* and the edge elements are its edges, primary then out-of-band, that join
\* two of its vertices, each between the elements of its inV and outV.
C11_GraphOfAcceptedResults ==
  (AcceptedResults /\ lastEvent.vertices > 0 /\ ~forEachThrows(lastEvent.edgeResults))
    => /\ state = "graph-results"
       /\ [i \in DOMAIN svg.vertex |-> svg.vertex[i].vertex] = OfType(lastEvent.queryResults, "vertex")
       /\ svg.label = svg.vertex
       /\ [i \in DOMAIN svg.edge |-> svg.edge[i].edge] = JoiningEdges
       /\ \A i \in DOMAIN svg.edge :
            /\ svg.edge[i].source.vertex.id = svg.edge[i].edge.inV
            /\ svg.edge[i].target.vertex.id = svg.edge[i].edge.outV

\* a reply for the current id whose out-of-band list repeats the edge of the
\* primary result set: both are drawn
C11_Witness ==
  /\ lastEvent.name = "showResults"
  /\ lastEvent.queryId = _currentQueryId
  /\ lastEvent.vertices = 2
  /\ Len(lastEvent.edgeResults) = 1
  /\ state = "graph-results"
  /\ Len(svg.edge) = 2

\* C12: a handler that accepts a result set leaves the JSON text of exactly
\* the primary records of that set, with or without vertices among them and
\* whichever view is selected; every other handler leaves the JSON text as it
\* was.
C12_JsonOfLastAccepted ==
  [][IF \/ lastEvent'.name = "showResults" /\ lastEvent'.queryId = _currentQueryId
        \/ lastEvent'.name = "setPageState" /\ ~lastEvent'.isQueryRunning /\ ~lastEvent'.hasError
     THEN jsonResults' = JSONstringify(lastEvent'.queryResults)
     ELSE jsonResults' = jsonResults]_vars

\* results with vertices accepted while the graph view is selected, over the
\* JSON text of an earlier result set
C12_Witness ==
  /\ lastEvent.name = "showResults"
  /\ lastEvent.queryId = _currentQueryId
  /\ _currentQueryId >= 2
  /\ lastEvent.vertices > 0
  /\ _graphView
  /\ jsonResults = JSONstringify(lastEvent.queryResults)

\* C13: after a showQueryError for the current query id the state is error,
\* the error panel holds the text of the message and no vertex, edge or
\* label element is displayed.
C13_ErrorShownVerbatim ==
  (lastEvent.name = "showQueryError" /\ lastEvent.queryId = _currentQueryId)
    => /\ state = "error"
       /\ queryError = lastEvent.error
       /\ svg = NoGraph

\* the error of the current query arrived after a graph had been drawn
C13_Witness ==
  /\ lastEvent.name = "showQueryError"
  /\ lastEvent.queryId = _currentQueryId
  /\ state = "error"
  /\ queryError = lastEvent.error /\ queryError # ""
  /\ stats # <<>>
  /\ _force # 0

(***************************************************************************)
(* What a render draws, in terms of the result set it was given.           *)
(***************************************************************************)
\* the vertices and the edges (primary, then out-of-band) of the result set
\* of the last event
RawVertices == OfType(lastEvent.queryResults, "vertex")
RawEdges == OfType(lastEvent.queryResults, "edge") \o lastEvent.edgeResults

\* the ids of the vertices within the node cap, and the edges between them
ShownIds == {RawVertices[i].id : i \in 1..Min(Len(RawVertices), maxNodes)}
Drawable ==
  LET ids == ShownIds
  IN  SelectSeq(RawEdges, LAMBDA e : e.inV \in ids /\ e.outV \in ids)

\* the last handler called displayGraph, on edge lists without a null
DrawnRender ==
  /\ AcceptedResults
  /\ lastEvent.vertices > 0
  /\ ~forEachThrows(lastEvent.edgeResults)

Range(f) == {f[i] : i \in DOMAIN f}
DrawnEdges == [i \in DOMAIN svg.edge |-> svg.edge[i].edge]

\* C14: a render of N vertices and the edges E draws min(N, maxNodes) nodes
\* and min(d, maxEdges) links, d the number of edges of E whose inV and outV
\* are both ids of vertices within the node cap.
C14_CappedCounts ==
  DrawnRender
    => /\ Len(svg.vertex) = Min(Len(RawVertices), maxNodes)
       /\ Len(svg.edge) = Min(Len(Drawable), maxEdges)

\* more than maxEdges edges, one of them naming an absent vertex ahead of
\* maxEdges that can be drawn: all maxEdges are drawn
C14_Witness ==
  /\ DrawnRender
  /\ Len(RawEdges) > maxEdges
  /\ Len(Drawable) = maxEdges
  /\ RawEdges[1] \notin Range(Drawable)
  /\ Len(svg.edge) = maxEdges

\* C15: the source and the target of every link are drawn nodes; after a
\* render no edge is drawn whose inV or outV is not the id of a vertex within
\* the node cap, and such an edge in the result set neither makes the render
\* log an exception nor keeps the client from graph-results.
C15_NoDanglingEdges ==
  /\ LET drawn == Range(svg.vertex)
     IN  \A i \in DOMAIN svg.edge :
           svg.edge[i].source \in drawn /\ svg.edge[i].target \in drawn
  /\ DrawnRender
       => /\ LET ids == ShownIds
             IN  \A i \in DOMAIN svg.edge :
                   svg.edge[i].edge.inV \in ids /\ svg.edge[i].edge.outV \in ids
          /\ state = "graph-results"
          /\ \A i \in 1..Len(emitted) : emitted[i].text # "TypeError"

\* a ring through more than maxNodes vertices: the edges to and from the
\* vertices cut by the cap are not drawn, the others are
C15_Witness ==
  /\ DrawnRender
  /\ Len(RawVertices) > maxNodes
  /\ Len(RawEdges) = Len(RawVertices)
  /\ Len(svg.edge) > 0
  /\ Len(svg.edge) < Len(RawEdges)

\* C16: the nodes a render draws are the first min(N, maxNodes) vertices of
\* the result set, in their order, each in a node of its own.
C16_FirstVerticesInOrder ==
  DrawnRender
    => /\ DOMAIN svg.vertex = 1..Min(Len(RawVertices), maxNodes)
       /\ \A i \in DOMAIN svg.vertex : svg.vertex[i].vertex = RawVertices[i]
       /\ Cardinality(Range(svg.vertex)) = Len(svg.vertex)

\* more vertices than maxNodes: the vertex at position maxNodes is the last
\* one drawn
C16_Witness ==
  /\ DrawnRender
  /\ Len(RawVertices) > maxNodes
  /\ Len(svg.vertex) = maxNodes
  /\ svg.vertex[maxNodes].vertex = RawVertices[maxNodes]

\* the number of edges the stats line gives as existing
EdgeTotal == IF stats[1] = "Displaying all" THEN stats[4] ELSE stats[8]

\* C17: the edges a render is given are the primary records of type "edge"
\* followed by every record of the out-of-band list: the stats line counts
\* all of them, and the links are, in that order and up to maxEdges, those
\* whose endpoints are found - an edge held by both lists twice.
C17_EdgesConcatenated ==
  DrawnRender
    => /\ EdgeTotal = Len(RawEdges)
       /\ LET d == Drawable
          IN  DrawnEdges = SubSeq(d, 1, Min(Len(d), maxEdges))

\* the out-of-band list repeats an edge of the primary result set: two links
C17_Witness ==
  /\ DrawnRender
  /\ Len(lastEvent.edgeResults) > 0
  /\ lastEvent.edgeResults[1] \in Range(OfType(lastEvent.queryResults, "edge"))
  /\ Len(svg.edge) = 2
  /\ svg.edge[1].edge = svg.edge[2].edge

\* C18: after a render the stats line has the form "Displaying all ..."
\* exactly when the result set holds at most maxNodes vertices and at most
\* maxEdges edges between the vertices within the node cap; two vertices and
\* one edge between them give "Displaying all 2 vertices and 1 edges".
C18_AllFormIffNoCap ==
  DrawnRender
    => /\ stats[1] = "Displaying all"
            <=> (Len(RawVertices) <= maxNodes /\ Len(Drawable) <= maxEdges)
       /\ (Len(RawVertices) = 2 /\ Len(RawEdges) = 1 /\ Len(Drawable) = 1)
            => stats = <<"Displaying all", 2, "vertices and", 1, "edges">>

\* C19: a stats line of the form "Displaying X of Y ..." gives the numbers of
\* nodes and links drawn as X and the numbers of vertices and of edges
\* (primary and out-of-band) of the result set as Y; 350 vertices and no
\* edge give "Displaying 300 of 350 vertices and 0 of 0 edges".
C19_ShownOfExisting ==
  DrawnRender
    => /\ stats[1] = "Displaying"
            => stats = <<"Displaying", Len(svg.vertex), "of", Len(RawVertices), "vertices and",
                         Len(svg.edge), "of", Len(RawEdges), "edges">>
       /\ (Len(RawVertices) = 350 /\ Len(RawEdges) = 0)
            => stats = <<"Displaying", 300, "of", 350, "vertices and", 0, "of", 0, "edges">>

\* the 350 vertices of the example have been rendered
C19_Witness ==
  /\ DrawnRender
  /\ Len(RawVertices) = 350
  /\ Len(RawEdges) = 0
  /\ stats[1] = "Displaying"
  /\ Len(svg.vertex) = 300

\* the last handler called displayGraph on an edge list with a null in it
ThrowingRender ==
  /\ AcceptedResults
  /\ lastEvent.vertices > 0
  /\ forEachThrows(lastEvent.edgeResults)

\* C20: no handler is ended by an exception of displayGraph: after a render
\* that threw, the exception has been logged, the state is graph-results as
\* showResults set it, and the 'setPageState' handler has gone on to select
\* the view of the page state.
C20_RenderExceptionCaught ==
  /\ ~uncaught
  /\ ThrowingRender
       => /\ \E i \in 1..Len(emitted) : emitted[i] = Msg("log", 0, "TypeError")
          /\ state = "graph-results"
          /\ lastEvent.name = "setPageState"
               => /\ emitted[Len(emitted)].msg = "setView"
                  /\ _graphView = (lastEvent.view = "graph")

\* a page state whose out-of-band edge list holds a null, received while the
\* json view was selected: the render threw and the graph view is selected
C20_Witness ==
  /\ ThrowingRender
  /\ lastEvent.name = "setPageState"
  /\ lastEvent.view = "graph"
  /\ _graphView
  /\ emitted[Len(emitted)] = Msg("setView", 0, "graph")
  /\ svg = NoGraph

\* C21: after a render that threw, the vertex, label and edge elements are
\* all there or all gone, this._force is undefined or a force that was
\* started, and neither the state nor the stats line tells of a graph unless
\* its elements are displayed.
C21_LastGoodClearedState ==
  ThrowingRender
    => /\ svg = NoGraph \/ (svg.vertex # <<>> /\ svg.label = svg.vertex)
       /\ _force # 0 => stats # <<>>
       /\ svg = NoGraph => (state # "graph-results" /\ stats = <<>>)

\* C29: the vertex, edge and label elements of a graph exist only while the
\* state is graph-results.
C29_GraphOnlyInGraphResults ==
  state # "graph-results" => svg = NoGraph

\* C28: the source of every link is a drawn node whose vertex has the id the
\* edge gives as inV, and its target a drawn node whose vertex has the id the
\* edge gives as outV, also when several drawn vertices have that id.
C28_LinkEndpointsById ==
  LET drawn == Range(svg.vertex)
  IN  \A i \in DOMAIN svg.edge :
        /\ \E n \in drawn : n = svg.edge[i].source /\ n.vertex.id = svg.edge[i].edge.inV
        /\ \E n \in drawn : n = svg.edge[i].target /\ n.vertex.id = svg.edge[i].edge.outV

\* two drawn vertices share the id an edge names, and the edge is drawn
\* between vertices of different ids
C28_Witness ==
  /\ DrawnRender
  /\ Len(svg.edge) > 0
  /\ svg.edge[1].edge.inV # svg.edge[1].edge.outV
  /\ \E i, j \in DOMAIN svg.vertex :
       i < j /\ svg.vertex[i].vertex.id = svg.vertex[j].vertex.id
             /\ svg.vertex[i].vertex.id = svg.edge[1].edge.inV

\* C27: a page state with isQueryRunning and runningQueryId k makes k the
\* current query id and the state querying, clears the graph and shows
\* nothing of the results and the error it carries; the current id then
\* stays k until a query call or another page state, and meanwhile a reply
\* tagged with the current id is shown (its JSON text and a results state,
\* or its error text and the error state) while a reply with any other id
\* changes nothing that is displayed.
C27_SnapshotOfRunningQuery ==
  [][/\ (lastEvent'.name = "setPageState" /\ lastEvent'.isQueryRunning)
          => /\ state' = "querying"
             /\ _currentQueryId' = lastEvent'.queryId
             /\ svg' = NoGraph
             /\ UNCHANGED <<jsonResults, queryError, stats, _force, alpha, _graphView>>
     /\ lastEvent'.name \notin {"query", "setPageState"} => UNCHANGED _currentQueryId
     /\ lastEvent'.name = "showResults"
          => IF lastEvent'.queryId = _currentQueryId
             THEN /\ jsonResults' = JSONstringify(lastEvent'.queryResults)
                  /\ state' = IF lastEvent'.vertices > 0 THEN "graph-results" ELSE "json-results"
             ELSE UNCHANGED <<state, jsonResults, queryError, stats, svg, _force, alpha>>
     /\ lastEvent'.name = "showQueryError"
          => IF lastEvent'.queryId = _currentQueryId
             THEN state' = "error" /\ queryError' = lastEvent'.error
             ELSE UNCHANGED <<state, jsonResults, queryError, stats, svg, _force, alpha>>]_vars

\* no query was ever issued by this client: the id of the accepted reply is
\* the one a page state gave
C27_Witness ==
  /\ maxIssued = 0
  /\ _currentQueryId = 2
  /\ lastEvent.name = "showResults"
  /\ lastEvent.queryId = 2
  /\ state = "graph-results"
  /\ svg # NoGraph

(***************************************************************************)
(* Properties of the Mongo shell wrapper.                                   *)
(***************************************************************************)
Resolved(k) == execs[k].status = "resolved"

\* the lines of a text that are neither empty nor the paging prompt, in order
KeptLines(text) == SelectSeq(text, LAMBDA line : line # "" /\ line # typeItForMore)

\* C22: each script execution resolves from the output of its own script only:
\* the text the shell printed before that execution's end-of-data sentinel,
\* without the sentinel, also when a second execution was started before the
\* first one delivered its result.
C22_OwnOutputOnly ==
  \A k \in DOMAIN execs :
    Resolved(k) => execs[k].raw = ShellOutput(execs[k].script)

\* C23: when the shell process exits while a script execution is pending, that
\* execution fails with an error reporting that the process exited
\* prematurely; it neither resolves nor stays pending.
C23_ExitFailsPending ==
  [][lastEvent'.name = "exit"
     => \A k \in DOMAIN execs :
          execs[k].status = "pending"
            => /\ execs'[k].status = "rejected"
               /\ execs'[k].error = "The process exited prematurely"]_vars

\* C24: when the shell executable could not be found (process error with code
\* ENOENT), an execution that ends is rejected with the error stating that the
\* shell could not be found and naming the attempted path.
C24_NotFoundRejected ==
  [][\A k \in DOMAIN execs :
       (mongoShell' = "ENOENT" /\ execs[k].status = "pending" /\ execs'[k].status # "pending")
         => /\ execs'[k].status = "rejected"
            /\ execs'[k].error = notFoundMessage]_vars

\* C25: the result of a script execution never contains the paging prompt:
\* every line equal to the prompt is removed, all other non-empty lines of the
\* text are kept in order.
C25_PromptRemoved ==
  \A k \in DOMAIN execs :
    Resolved(k) => /\ typeItForMore \notin Range(execs[k].result)
                   /\ execs[k].result = KeptLines(execs[k].raw)

C25_Witness ==
  \E k \in DOMAIN execs :
    /\ Resolved(k)
    /\ typeItForMore \in Range(execs[k].raw)
    /\ "" \in Range(execs[k].raw)
    /\ execs[k].result # <<>>

\* C26: when the output was cut off by the shell's paging (the shell printed
\* the prompt), the result contains the marker (More) in place of the prompt.
C26_MoreMarker ==
  \A k \in DOMAIN execs :
    (Resolved(k) /\ typeItForMore \in Range(execs[k].raw))
      => "(More)" \in Range(execs[k].result)

(***************************************************************************)
(* Properties of the editor manager.                                        *)
(***************************************************************************)
SaveEvents == {"onDidSaveTextDocument", "userSave"}
SaveInProgress == \E doc \in Docs : updating[doc] \in {"saving", "saved"}

\* C30: a save that updateEditor performs itself never triggers a save prompt
\* or an upload from onDidSaveTextDocument, also when updateEditor runs for
\* two documents at the same time.
C30_OwnSaveIgnored ==
  lastEvent.name = "onDidSaveTextDocument" => lastEvent.outcome = "ignored"

\* C31: ignoreSave is true only while a save of updateEditor is in progress:
\* it is false again when that save has completed or thrown, and a user save
\* of a tracked document made when no such save is in progress is processed.
C31_IgnoreSaveOnlyWhileSaving ==
  /\ ignoreSave => SaveInProgress
  /\ (lastEvent.name = "userSave" /\ lastEvent.queryId \in fileMap /\ ~SaveInProgress)
       => lastEvent.outcome # "ignored"

C31_Witness ==
  /\ lastEvent.name = "saved"
  /\ lastEvent.error = "Error"
  /\ ~ignoreSave

\* C32: when the save prompt is answered with anything other than Upload or
\* Always upload, onDidSaveTextDocument fails with UserCancelledError, nothing
\* is uploaded and no editor is rewritten.
C32_CancelLeavesCloudAndEditor ==
  [][(lastEvent'.name = "answer" /\ lastEvent'.response \notin {"Upload", "Always upload"})
       => /\ lastEvent'.error = "UserCancelledError"
          /\ handler'[lastEvent'.queryId] = "none"
          /\ UNCHANGED <<updating, isDirty, showSavePrompt>>]_vars

C32_Witness ==
  /\ lastEvent.name = "answer"
  /\ lastEvent.response = undefined
  /\ lastEvent.error = "UserCancelledError"
  /\ handler[lastEvent.queryId] = "none"

\* C33: after the answer Always upload the setting is false before the upload
\* begins; from then on it stays false, no save shows the prompt again, and
\* every save that onDidSaveTextDocument processes goes on to the upload.
C33_AlwaysUploadStopsPrompt ==
  [][/\ \A doc \in Docs :
          (handler[doc] = "setting" /\ handler'[doc] = "update") => ~showSavePrompt'
     /\ ~showSavePrompt
          => /\ ~showSavePrompt'
             /\ \A doc \in Docs : handler'[doc] = "prompt" => handler[doc] = "prompt"
             /\ (lastEvent'.name \in SaveEvents /\ lastEvent'.outcome # "ignored")
                  => handler'[lastEvent'.queryId] = "update"]_vars

C33_Witness ==
  /\ ~showSavePrompt
  /\ lastEvent.name = "userSave"
  /\ lastEvent.outcome = "update"
  /\ handler[lastEvent.queryId] = "update"

\* C34: when showDocument finds unsaved changes in the local document and the
\* user does not confirm the overwrite, it fails with UserCancelledError and
\* leaves fileMap, the persisted editors and the document unchanged; the
\* editor's data is not fetched.
C34_DeclinedOverwriteChangesNothing ==
  [][(/\ lastEvent'.name = "showDocument"
      /\ isDirty[lastEvent'.queryId]
      /\ lastEvent'.response # "Yes")
       => /\ lastEvent'.error = "UserCancelledError"
          /\ UNCHANGED <<fileMap, persisted, isDirty, updating>>]_vars

C34_Witness ==
  /\ lastEvent.name = "showDocument"
  /\ lastEvent.error = "UserCancelledError"
  /\ lastEvent.queryId \notin fileMap
  /\ isDirty[lastEvent.queryId]

(***************************************************************************)
(* Properties of the paged tree item.                                       *)
(***************************************************************************)
Loaded == lastEvent.name = "loadMoreChildren" /\ lastEvent.error = ""

\* C35: hasMoreChildrenImpl() is true before the first load and after every
\* load equals hasMoreResults() of the iterator; a load without clearCache
\* goes on with the same iterator and returns its next batch, a load with
\* clearCache makes a new iterator and returns its first batch.
C35_PagedLoads ==
  [][/\ _iterator = NoIterator => _hasMoreChildren
     /\ (lastEvent'.name = "loadMoreChildren" /\ lastEvent'.error = "")
          => /\ _hasMoreChildren' = (~_iterator'.fetched \/ _iterator'.pos < _iterator'.total)
             /\ _iterator'.fetched
             /\ IF lastEvent'.response = "clearCache" \/ _iterator = NoIterator
                THEN /\ _iterator'.maxItemCount = _batchSize
                     /\ _iterator'.pos = Min(_batchSize, _iterator'.total)
                     /\ returned' = [i \in 1.._iterator'.pos |-> i]
                ELSE /\ _iterator'.maxItemCount = _iterator.maxItemCount
                     /\ _iterator'.total = _iterator.total
                     /\ _iterator'.pos = Min(_iterator.pos + _iterator.maxItemCount,
                                             _iterator.total)
                     /\ returned' = [i \in 1..(_iterator'.pos - _iterator.pos)
                                       |-> _iterator.pos + i]]_vars

C35_Witness ==
  /\ Loaded
  /\ lastEvent.response = ""
  /\ _iterator.pos > _iterator.maxItemCount
  /\ _iterator.pos < _iterator.total
  /\ _hasMoreChildren
  /\ returned # <<>>

====
